---- MODULE Spec2Model ----
(***************************************************************************)
(* Multi-database patent search coordinator (src/multi_db_coordinator.py). *)
(*                                                                         *)
(* MultiDBCoordinator.search_multiple_databases fans one query out to the  *)
(* bots registered in self.bots, in a thread pool (_search_parallel) or    *)
(* one after the other (_search_sequential), folds the per-database        *)
(* results into one de-duplicated list (_merge_and_deduplicate_results,    *)
(* _deduplicate_patents, _merge_patent_info, _calculate_patent_hash) and   *)
(* returns a summary with counts and a de-duplication ratio.               *)
(*                                                                         *)
(* Three specifications share the module:                                  *)
(*   Spec       one run of search_multiple_databases on a coordinator      *)
(*   SpecHash   _calculate_patent_hash applied to two bounded records      *)
(*   SpecDedup  _deduplicate_patents applied to a bounded working sequence *)
(*                                                                         *)
(* A Python str is a sequence of one-character strings; a Python list      *)
(* whose order the code destroys with list(set(...)) is a set.             *)
(***************************************************************************)
EXTENDS Naturals, Integers, Sequences, FiniteSets, TLC

\* ------------------------------------------------------------------ bounds
\* Longest databases argument of a run.
MaxDbs == 3
\* Most records one backend call returns.
MaxRecs == 1
\* Longest patent number drawn for the fingerprint comparison.
MaxNumLen == 3
\* Longest working sequence handed to _deduplicate_patents in SpecDedup.
MaxPatents == 3
\* SpecReuse: calls of search_multiple_databases on one coordinator, ids per
\* call, and calls of export_results.
MaxRuns == 2
MaxReuseDbs == 1
MaxExports == 1
\* SpecMerge: records per entry of the results dict handed to the merge.
MaxMergeRecs == 2
\* SpecSeq: ids per sequential run.
MaxSeqDbs == 2
\* SpecLive: ids per run.
MaxLiveDbs == 2
\* SpecModes: ids per request.
MaxModeDbs == 2

\* ----------------------------------------------------------------- strings
\* The sequences over S of length at most n.
SeqsUpTo(S, n) == UNION {[1..k -> S] : k \in 0..n}

\* str.upper() and str.lower(), one character at a time.
UpperChar(c) ==
    CASE c = "u" -> "U" [] c = "s" -> "S" [] c = "t" -> "T" [] c = "w" -> "W"
      [] c = "i" -> "I" [] c = "g" -> "G" [] OTHER -> c

LowerChar(c) ==
    CASE c = "U" -> "u" [] c = "S" -> "s" [] c = "T" -> "t" [] c = "W" -> "w"
      [] c = "I" -> "i" [] c = "G" -> "g" [] OTHER -> c

upper(s) == [k \in 1..Len(s) |-> UpperChar(s[k])]

lower(s) == [k \in 1..Len(s) |-> LowerChar(s[k])]

\* The characters str.strip() removes from both ends.
IsSpace(c) == c = " "

RECURSIVE lstrip(_)
lstrip(s) == IF s # <<>> /\ IsSpace(Head(s)) THEN lstrip(Tail(s)) ELSE s

RECURSIVE rstrip(_)
rstrip(s) ==
    IF s # <<>> /\ IsSpace(s[Len(s)]) THEN rstrip(SubSeq(s, 1, Len(s) - 1)) ELSE s

strip(s) == rstrip(lstrip(s))

\* str.replace(sub, ""): every non-overlapping occurrence of sub, found
\* scanning from the left, is removed.
RECURSIVE replace(_, _)
replace(s, sub) ==
    IF Len(s) < Len(sub) THEN s
    ELSE IF SubSeq(s, 1, Len(sub)) = sub
         THEN replace(SubSeq(s, Len(sub) + 1, Len(s)), sub)
         ELSE <<Head(s)>> \o replace(Tail(s), sub)

\* hashlib.md5(...).hexdigest(): a digest of the whole input string.  Within
\* the bounded inputs MD5 has no collisions, so the digest is modelled as
\* an injective tagging of its input.
md5(s) == <<"md5", s>>

\* ------------------------------------------------------------- fingerprint
\* Mutant: the country-code prefixes are not removed from the number.
HashKeepsCountryCode(patent) ==
    md5(replace(replace(upper(strip(patent.patent_number)), <<"-">>), <<" ">>)
        \o <<"|">> \o lower(strip(patent.title)))

_calculate_patent_hash(patent) ==
    LET patent_number == upper(strip(patent.patent_number))
        title == lower(strip(patent.title))
        stripped == replace(replace(replace(replace(patent_number,
                        <<"U", "S">>), <<"T", "W">>), <<"-">>), <<" ">>)
        hash_string == stripped \o <<"|">> \o title
    IN  md5(hash_string)

\* ------------------------------------------------------------------- merge
\* Mutant: a later non-empty abstract, claims or description overwrites the
\* value the entry already holds (last-non-empty-wins).
MergeLastWins(existing_patent, new_patent) ==
    [existing_patent EXCEPT
        !.inventors = existing_patent.inventors \cup new_patent.inventors,
        !.applicants = existing_patent.applicants \cup new_patent.applicants,
        !.ipc_classes = existing_patent.ipc_classes \cup new_patent.ipc_classes,
        !.abstract = IF new_patent.abstract # "" THEN new_patent.abstract ELSE @,
        !.claims = IF new_patent.claims # "" THEN new_patent.claims ELSE @,
        !.description =
            IF new_patent.description # "" THEN new_patent.description ELSE @,
        !.images = existing_patent.images \cup new_patent.images]

\* Mutant: the multi-valued fields of the incoming record replace those of
\* the entry instead of being united with them.
MergeReplacesLists(existing_patent, new_patent) ==
    [existing_patent EXCEPT
        !.inventors = new_patent.inventors,
        !.applicants = new_patent.applicants,
        !.ipc_classes = new_patent.ipc_classes,
        !.abstract = IF @ = "" /\ new_patent.abstract # ""
                     THEN new_patent.abstract ELSE @,
        !.claims = IF @ = "" /\ new_patent.claims # ""
                   THEN new_patent.claims ELSE @,
        !.description = IF @ = "" /\ new_patent.description # ""
                        THEN new_patent.description ELSE @,
        !.images = new_patent.images]

\* _merge_patent_info(existing_patent, new_patent): the value existing_patent
\* holds afterwards (new_patent is only read).
_merge_patent_info(existing_patent, new_patent) ==
    [existing_patent EXCEPT
        !.inventors = existing_patent.inventors \cup new_patent.inventors,
        !.applicants = existing_patent.applicants \cup new_patent.applicants,
        !.ipc_classes = existing_patent.ipc_classes \cup new_patent.ipc_classes,
        !.abstract = IF @ = "" /\ new_patent.abstract # ""
                     THEN new_patent.abstract ELSE @,
        !.claims = IF @ = "" /\ new_patent.claims # ""
                   THEN new_patent.claims ELSE @,
        !.description = IF @ = "" /\ new_patent.description # ""
                        THEN new_patent.description ELSE @,
        !.images = existing_patent.images \cup new_patent.images]

\* The position in deduplicated of the first entry whose hash is h (the scan
\* of lines 315-316), 0 when there is none.
RECURSIVE FirstWithHash(_, _, _)
FirstWithHash(deduplicated, h, k) ==
    IF k > Len(deduplicated) THEN 0
    ELSE IF _calculate_patent_hash(deduplicated[k]) = h THEN k
         ELSE FirstWithHash(deduplicated, h, k + 1)

\* Mutant: a repeated fingerprint merges the fields but leaves the entry's
\* source_databases as the first record's.
DedupKeepsFirstSource(acc, patents, p) ==
    LET patent == patents[p]
        patent_hash == _calculate_patent_hash(patent)
    IN  IF patent_hash \notin acc.seen_hashes
        THEN [deduplicated |-> Append(acc.deduplicated, patent),
              seen_hashes |-> acc.seen_hashes \cup {patent_hash},
              firsts |-> Append(acc.firsts, p)]
        ELSE LET k == FirstWithHash(acc.deduplicated, patent_hash, 1)
             IN  [acc EXCEPT
                     !.deduplicated[k] = _merge_patent_info(@, patent)]

\* Mutant: a first-seen hash is not added to seen_hashes, so every record is
\* appended as if its fingerprint were new.
DedupForgetsHashes(acc, patents, p) ==
    [deduplicated |-> Append(acc.deduplicated, patents[p]),
     seen_hashes |-> acc.seen_hashes,
     firsts |-> Append(acc.firsts, p)]

\* Mutant: a record with a new fingerprint is inserted at the head of
\* deduplicated instead of appended.
DedupPrepends(acc, patents, p) ==
    LET patent == patents[p]
        patent_hash == _calculate_patent_hash(patent)
    IN  IF patent_hash \notin acc.seen_hashes
        THEN [deduplicated |-> <<patent>> \o acc.deduplicated,
              seen_hashes |-> acc.seen_hashes \cup {patent_hash},
              firsts |-> <<p>> \o acc.firsts]
        ELSE LET k == FirstWithHash(acc.deduplicated, patent_hash, 1)
                 existing_patent == acc.deduplicated[k]
                 combined_sources ==
                     existing_patent.source_databases \cup patent.source_databases
                 tagged == [existing_patent EXCEPT
                               !.source_databases = combined_sources]
             IN  [acc EXCEPT
                     !.deduplicated[k] = _merge_patent_info(tagged, patent)]

\* Mutant: seen_hashes is replaced by the newest hash instead of growing, so
\* a fingerprint is recognised only when it repeats the one appended last.
DedupRemembersLast(acc, patents, p) ==
    LET patent == patents[p]
        patent_hash == _calculate_patent_hash(patent)
    IN  IF patent_hash \notin acc.seen_hashes
        THEN [deduplicated |-> Append(acc.deduplicated, patent),
              seen_hashes |-> {patent_hash},
              firsts |-> Append(acc.firsts, p)]
        ELSE LET k == FirstWithHash(acc.deduplicated, patent_hash, 1)
                 existing_patent == acc.deduplicated[k]
                 combined_sources ==
                     existing_patent.source_databases \cup patent.source_databases
                 tagged == [existing_patent EXCEPT
                               !.source_databases = combined_sources]
             IN  [acc EXCEPT
                     !.deduplicated[k] = _merge_patent_info(tagged, patent)]

\* One iteration of the loop of _deduplicate_patents over patent number p of
\* patents.  acc.deduplicated is the list built so far, acc.seen_hashes the
\* set of the same name, acc.firsts the positions in patents of the records
\* that were appended (the objects the merge mutates in place).
DedupVisit(acc, patents, p) ==
    LET patent == patents[p]
        patent_hash == _calculate_patent_hash(patent)
    IN  IF patent_hash \notin acc.seen_hashes
        THEN [deduplicated |-> Append(acc.deduplicated, patent),
              seen_hashes |-> acc.seen_hashes \cup {patent_hash},
              firsts |-> Append(acc.firsts, p)]
        ELSE LET k == FirstWithHash(acc.deduplicated, patent_hash, 1)
                 existing_patent == acc.deduplicated[k]
                 combined_sources ==
                     existing_patent.source_databases \cup patent.source_databases
                 tagged == [existing_patent EXCEPT
                               !.source_databases = combined_sources]
             IN  [acc EXCEPT
                     !.deduplicated[k] = _merge_patent_info(tagged, patent)]

RECURSIVE DedupLoop(_, _, _)
DedupLoop(acc, patents, p) ==
    IF p > Len(patents) THEN acc
    ELSE DedupLoop(DedupVisit(acc, patents, p), patents, p + 1)

\* _deduplicate_patents(patents), with the positions of the surviving
\* objects.  Every record handed to it is a dict with string and list
\* fields, for which no statement of the loop raises.
DedupRun(patents) ==
    DedupLoop([deduplicated |-> <<>>, seen_hashes |-> {}, firsts |-> <<>>],
              patents, 1)

_deduplicate_patents(patents) == DedupRun(patents).deduplicated

\* ----------------------------------------------------------------- records
\* A patent record as a backend returns it: a dict (dict = TRUE) with string
\* and list fields, not yet tagged with source_databases.
Patent(number, title, abstract, claims, description, inventors, applicants, ipc, images) ==
    [dict |-> TRUE, patent_number |-> number, title |-> title,
     abstract |-> abstract, claims |-> claims, description |-> description,
     inventors |-> inventors, applicants |-> applicants,
     ipc_classes |-> ipc, images |-> images, source_databases |-> {}]

\* A malformed element of a backend's results list: a value that is no dict
\* (None), on which patent["source_databases"] = [db] raises TypeError.
NotADict ==
    [dict |-> FALSE, patent_number |-> <<>>, title |-> <<>>, abstract |-> "",
     claims |-> "", description |-> "", inventors |-> {}, applicants |-> {},
     ipc_classes |-> {}, images |-> {}, source_databases |-> {}]

\* The records the backends of a run draw their results from: the same patent
\* as two databases spell it, a different patent, and a malformed element.
WidgetUS ==
    Patent(<<"U", "S", "1", "2">>, <<"W", "i">>, "", "", "",
           {"ann"}, {"acme"}, {"G06"}, {})

WidgetPlain ==
    Patent(<<"1", "2">>, <<"w", "i", " ">>, "A gadget.", "1. A gadget.", "",
           {"bob"}, {"acme"}, {}, {"fig1"})

GearTW ==
    Patent(<<"T", "W", "7">>, <<"G">>, "A gear.", "", "Gears.",
           {"cat"}, {}, {"H01"}, {})

RunPool == {WidgetUS, WidgetPlain, GearTW, NotADict}

\* ---------------------------------------------------------------- backends
\* self.bots: the registered database ids.
Bots == {"twpat", "uspto"}

\* The ids a caller may name; "epo" has no bot.
DatabaseIds == Bots \cup {"epo"}

\* What one bot.search_patents call does: it returns a summary with status
\* "completed" and its records, returns a summary with status "failed" and
\* no records, or raises (the driver.quit() of its finally clause).
Outcomes ==
    {[kind |-> "raise", results |-> <<>>], [kind |-> "failed", results |-> <<>>]}
    \cup {[kind |-> "completed", results |-> r] : r \in SeqsUpTo(RunPool, MaxRecs)}

NoOutcome == [kind |-> "none", results |-> <<>>]

\* str(e) of the exception a backend call raises, the error a bot reports in
\* a failed summary, and the error recorded for an id without a bot.
ExceptionMessage == "driver quit failed"
BotError == "search failed"
UnsupportedError == "unsupported database"
PoolError == "max_workers must be greater than 0"

\* The summary dict search_patents returns for a non-raising outcome.
BotSummary(db, out) ==
    [db |-> db, status |-> out.kind,
     error |-> IF out.kind = "failed" THEN BotError ELSE "",
     total_found |-> Len(out.results), results |-> out.results]

\* The entry the coordinator records when the call for db raised.
RaisedEntry(db) ==
    [db |-> db, status |-> "failed", error |-> ExceptionMessage,
     total_found |-> 0, results |-> <<>>]

\* The entry _search_sequential records for an id without a bot.
UnsupportedEntry(db) ==
    [db |-> db, status |-> "failed", error |-> UnsupportedError,
     total_found |-> 0, results |-> <<>>]

\* -------------------------------------------------------------------- dict
\* The results dict, in insertion order: a sequence of entries keyed by db.
Keys(dict) == {dict[k].db : k \in 1..Len(dict)}

\* dict[key] = entry: a new key is appended, an existing key keeps its place.
DictSet(dict, entry) ==
    IF entry.db \in Keys(dict)
    THEN [k \in 1..Len(dict) |-> IF dict[k].db = entry.db THEN entry ELSE dict[k]]
    ELSE Append(dict, entry)

DictGet(dict, key) == dict[CHOOSE k \in 1..Len(dict) : dict[k].db = key]

\* One entry of execution_log.
LogEntry(kind, db, n, m) == [kind |-> kind, db |-> db, n |-> n, m |-> m]

\* ------------------------------------------------------------------- state
VARIABLES
    pc,             \* where search_multiple_databases stands
    databases,      \* its databases argument
    parallel,       \* its parallel argument
    i,              \* position of the for-loop over databases
    futures,        \* future_to_db of _search_parallel, in submission order
    results,        \* the results dict both strategies build and return
    returned,       \* history: every entry written to results, in order
    merged,         \* what _merge_and_deduplicate_results returned
    merge_raised,   \* history: its except clause ran
    execution_log,  \* self.execution_log
    all_results,    \* self.all_results
    merged_results, \* self.merged_results
    result,         \* the summary returned to the caller
    invoked,        \* history: the ids _search_sequential has called, in order
    log_base,       \* history: len(self.execution_log) when the run was called
    held,           \* the summaries the caller holds, as they were at return
    exports,        \* the number of export_results calls made
    stats,          \* what the last get_statistics call returned
    exported,       \* what the last export_results call wrote
    downloaded_files, \* self.downloaded_files
    at_call,        \* history: the stored results when the run was called
    h_a, h_b,       \* SpecHash: the two records compared
    h_out,          \* SpecHash: their hashes
    d_patents,      \* SpecDedup: the working sequence
    d_out,          \* SpecDedup: what _deduplicate_patents returned
    d_again         \* SpecDedup: what it returned for d_out + d_out

runVars == <<pc, databases, parallel, i, futures, results, returned, merged,
             merge_raised, execution_log, all_results, merged_results, result,
             invoked, log_base, held, exports, stats, exported,
             downloaded_files, at_call>>

hashVars == <<h_a, h_b, h_out>>

dedupVars == <<d_patents, d_out, d_again>>

vars == <<runVars, hashVars, dedupVars>>

NoResult == [status |-> "none"]

NoStats == [called |-> FALSE]

NoExport == [written |-> FALSE]

\* MultiDBCoordinator.__init__ and a caller that has not called yet.
\* What a coordinator stores of its last completed run; NothingStored is
\* what __init__ sets.
NothingStored ==
    [all_results |-> <<>>, merged_results |-> <<>>, downloaded_files |-> <<>>]

InitRun ==
    /\ pc = "idle"
    /\ databases = <<>>
    /\ parallel = TRUE
    /\ i = 0
    /\ futures = <<>>
    /\ results = <<>>
    /\ returned = <<>>
    /\ merged = <<>>
    /\ merge_raised = FALSE
    /\ execution_log = <<>>
    /\ all_results = <<>>
    /\ merged_results = <<>>
    /\ result = NoResult
    /\ invoked = <<>>
    /\ log_base = 0
    /\ held = <<>>
    /\ exports = 0
    /\ stats = NoStats
    /\ exported = NoExport
    /\ downloaded_files = <<>>
    /\ at_call = NothingStored

IdleHash == h_a = NotADict /\ h_b = NotADict /\ h_out = <<>>

NoDedupOut == [done |-> FALSE, deduplicated |-> <<>>]

IdleDedup == d_patents = <<>> /\ d_out = NoDedupOut /\ d_again = NoDedupOut

Init == InitRun /\ IdleHash /\ IdleDedup

\* --------------------------------------------------- search_multiple_databases
\* The call: the run-start entry, then the entry of the chosen strategy.
StartRun(dbs, par) ==
    /\ pc = "idle"
    /\ databases' = dbs
    /\ parallel' = par
    /\ execution_log' =
          execution_log
          \o <<LogEntry("run_start", "", Len(dbs), 0),
               LogEntry(IF par THEN "mode_parallel" ELSE "mode_sequential",
                        "", 0, 0)>>
    /\ results' = <<>>
    /\ i' = 1
    /\ pc' = IF par THEN "pool" ELSE "seq_loop"
    /\ log_base' = Len(execution_log)
    /\ at_call' = [all_results |-> all_results,
                   merged_results |-> merged_results,
                   downloaded_files |-> downloaded_files]
    /\ UNCHANGED <<futures, returned, merged, merge_raised, all_results,
                   merged_results, result>>
    /\ UNCHANGED <<invoked, held, exports, stats, exported, downloaded_files>>
    /\ UNCHANGED <<hashVars, dedupVars>>

\* The except clause of search_multiple_databases for the exception e that
\* escaped a strategy: the failure entry and the "failed" summary.
RunFailed(msg) ==
    /\ execution_log' = Append(execution_log, LogEntry("run_error", msg, 0, 0))
    /\ result' = [status |-> "failed", error |-> msg,
                  keys |-> {"status", "error", "databases_searched",
                            "total_found", "merged_count", "results",
                            "downloaded_files", "execution_time",
                            "execution_log"},
                  total_found_by_db |-> <<>>, total_found |-> 0,
                  merged_count |-> 0, deduplication_ratio |-> <<0, 1>>,
                  results |-> <<>>, results_by_database |-> <<>>]
    /\ pc' = "done"

\* ------------------------------------------------------------ _search_parallel
\* Mutant: the except clause of search_multiple_databases also resets the
\* stored results before it returns the failed summary.
PoolCreateResets ==
    /\ pc = "pool"
    /\ IF Len(databases) = 0
       THEN /\ RunFailed(PoolError)
            /\ all_results' = <<>>
            /\ merged_results' = <<>>
            /\ downloaded_files' = <<>>
            /\ UNCHANGED <<databases, parallel, i, futures, results, returned,
                           merged, merge_raised>>
       ELSE /\ pc' = "submit"
            /\ UNCHANGED <<databases, parallel, i, futures, results, returned,
                           merged, merge_raised, execution_log, all_results,
                           merged_results, result, downloaded_files>>
    /\ UNCHANGED <<invoked, log_base, held, exports, stats, exported, at_call>>
    /\ UNCHANGED <<hashVars, dedupVars>>

\* ThreadPoolExecutor(max_workers=len(databases)): a pool of no workers is
\* refused with ValueError, which leaves _search_parallel.
PoolCreate ==
    /\ pc = "pool"
    /\ IF Len(databases) = 0
       THEN /\ RunFailed(PoolError)
            /\ UNCHANGED <<databases, parallel, i, futures, results, returned,
                           merged, merge_raised, all_results, merged_results>>
       ELSE /\ pc' = "submit"
            /\ UNCHANGED <<databases, parallel, i, futures, results, returned,
                           merged, merge_raised, execution_log, all_results,
                           merged_results, result>>
    /\ UNCHANGED <<invoked, log_base, held, exports, stats, exported,
                   downloaded_files, at_call>>
    /\ UNCHANGED <<hashVars, dedupVars>>

\* Mutant: the bot is looked up without the membership test, so an id without
\* a bot raises KeyError out of _search_parallel.
SubmitAborts ==
    /\ pc = "submit"
    /\ i <= Len(databases)
    /\ LET db == databases[i]
       IN  IF db \in Bots
           THEN /\ futures' = Append(futures,
                       [db |-> db, st |-> "pending", out |-> NoOutcome,
                        collected |-> FALSE])
                /\ i' = i + 1
                /\ pc' = IF i = Len(databases) THEN "collect" ELSE "submit"
                /\ UNCHANGED <<execution_log, result>>
           ELSE /\ RunFailed(db)
                /\ UNCHANGED <<futures, i>>
    /\ UNCHANGED <<databases, parallel, results, returned, merged, merge_raised,
                   all_results, merged_results>>
    /\ UNCHANGED <<invoked, log_base, held, exports, stats, exported,
                   downloaded_files, at_call>>
    /\ UNCHANGED <<hashVars, dedupVars>>

\* One iteration of the submit loop: a future for a registered id, a log
\* entry (and nothing else) for an id without a bot.
Submit ==
    /\ pc = "submit"
    /\ i <= Len(databases)
    /\ LET db == databases[i]
       IN  IF db \in Bots
           THEN /\ futures' = Append(futures,
                       [db |-> db, st |-> "pending", out |-> NoOutcome,
                        collected |-> FALSE])
                /\ UNCHANGED execution_log
           ELSE /\ execution_log' =
                       Append(execution_log, LogEntry("unsupported", db, 0, 0))
                /\ UNCHANGED futures
    /\ i' = i + 1
    /\ pc' = IF i = Len(databases) THEN "collect" ELSE "submit"
    /\ UNCHANGED <<databases, parallel, results, returned, merged, merge_raised,
                   all_results, merged_results, result>>
    /\ UNCHANGED <<invoked, log_base, held, exports, stats, exported,
                   downloaded_files, at_call>>
    /\ UNCHANGED <<hashVars, dedupVars>>

\* A pool thread takes a submitted task and enters bot.search_patents.  The
\* pool has as many workers as databases, so no task waits for a thread.
WorkerStart(f) ==
    /\ pc \in {"submit", "collect"}
    /\ futures[f].st = "pending"
    /\ futures' = [futures EXCEPT ![f].st = "running"]
    /\ UNCHANGED <<pc, databases, parallel, i, results, returned, merged,
                   merge_raised, execution_log, all_results, merged_results,
                   result>>
    /\ UNCHANGED <<invoked, log_base, held, exports, stats, exported,
                   downloaded_files, at_call>>
    /\ UNCHANGED <<hashVars, dedupVars>>

\* What the coordinator records for a call with outcome out: the entry of
\* results and the entry of execution_log.
EntryOf(db, out) ==
    IF out.kind = "raise" THEN RaisedEntry(db) ELSE BotSummary(db, out)

LogOf(db, out) ==
    IF out.kind = "raise"
    THEN LogEntry("db_error", db, 0, 0)
    ELSE LogEntry("db_done", db, Len(out.results), 0)

\* Mutant: the pool thread itself appends the completion or error entry
\* when its backend call ends (the logging done inside the submitted task).
WorkerFinishLogs(f, out) ==
    /\ pc \in {"submit", "collect"}
    /\ futures[f].st = "running"
    /\ futures' = [futures EXCEPT ![f].st = "finished", ![f].out = out]
    /\ execution_log' = Append(execution_log, LogOf(futures[f].db, out))
    /\ UNCHANGED <<pc, databases, parallel, i, results, returned, merged,
                   merge_raised, all_results, merged_results, result>>
    /\ UNCHANGED <<invoked, log_base, held, exports, stats, exported,
                   downloaded_files, at_call>>
    /\ UNCHANGED <<hashVars, dedupVars>>

\* The backend call of a pool thread returns or raises; the future is done.
WorkerFinish(f, out) ==
    /\ pc \in {"submit", "collect"}
    /\ futures[f].st = "running"
    /\ futures' = [futures EXCEPT ![f].st = "finished", ![f].out = out]
    /\ UNCHANGED <<pc, databases, parallel, i, results, returned, merged,
                   merge_raised, execution_log, all_results, merged_results,
                   result>>
    /\ UNCHANGED <<invoked, log_base, held, exports, stats, exported,
                   downloaded_files, at_call>>
    /\ UNCHANGED <<hashVars, dedupVars>>

\* Mutant: future.result() is called outside a try block, so the exception
\* of a backend call leaves _search_parallel.
CollectAborts(f) ==
    /\ pc = "collect"
    /\ futures[f].st = "finished"
    /\ ~futures[f].collected
    /\ LET db == futures[f].db
           entry == EntryOf(db, futures[f].out)
       IN  IF futures[f].out.kind = "raise"
           THEN /\ RunFailed(ExceptionMessage)
                /\ returned' = Append(returned, entry)
                /\ UNCHANGED results
           ELSE /\ results' = DictSet(results, entry)
                /\ returned' = Append(returned, entry)
                /\ execution_log' =
                      Append(execution_log, LogOf(db, futures[f].out))
                /\ UNCHANGED <<pc, result>>
    /\ futures' = [futures EXCEPT ![f].collected = TRUE]
    /\ UNCHANGED <<databases, parallel, i, merged, merge_raised,
                   all_results, merged_results>>
    /\ UNCHANGED <<invoked, log_base, held, exports, stats, exported,
                   downloaded_files, at_call>>
    /\ UNCHANGED <<hashVars, dedupVars>>

\* Mutant: the collecting loop gives up on a call that is still running
\* (future.result(timeout=...)) and records it as failed.
CollectWithTimeout(f) ==
    /\ pc = "collect"
    /\ futures[f].st \in {"running", "finished"}
    /\ ~futures[f].collected
    /\ LET db == futures[f].db
           out == IF futures[f].st = "finished" THEN futures[f].out
                  ELSE [kind |-> "raise", results |-> <<>>]
           entry == EntryOf(db, out)
       IN  /\ results' = DictSet(results, entry)
           /\ returned' = Append(returned, entry)
           /\ execution_log' = Append(execution_log, LogOf(db, out))
    /\ futures' = [futures EXCEPT ![f].collected = TRUE]
    /\ UNCHANGED <<pc, databases, parallel, i, merged, merge_raised,
                   all_results, merged_results, result>>
    /\ UNCHANGED <<invoked, log_base, held, exports, stats, exported,
                   downloaded_files, at_call>>
    /\ UNCHANGED <<hashVars, dedupVars>>

\* One iteration of the as_completed loop: the main thread takes a future
\* that is done and records its result or its exception.
Collect(f) ==
    /\ pc = "collect"
    /\ futures[f].st = "finished"
    /\ ~futures[f].collected
    /\ LET db == futures[f].db
           entry == EntryOf(db, futures[f].out)
       IN  /\ results' = DictSet(results, entry)
           /\ returned' = Append(returned, entry)
           /\ execution_log' = Append(execution_log, LogOf(db, futures[f].out))
    /\ futures' = [futures EXCEPT ![f].collected = TRUE]
    /\ UNCHANGED <<pc, databases, parallel, i, merged, merge_raised,
                   all_results, merged_results, result>>
    /\ UNCHANGED <<invoked, log_base, held, exports, stats, exported,
                   downloaded_files, at_call>>
    /\ UNCHANGED <<hashVars, dedupVars>>

\* Mutant: the collecting loop is left after the first future it handled
\* (wait(..., return_when=FIRST_COMPLETED)) and the pool is not joined.
ParallelReturnEarly ==
    /\ pc = "collect"
    /\ \/ futures = <<>>
       \/ \E f \in 1..Len(futures) : futures[f].collected
    /\ pc' = "merge"
    /\ UNCHANGED <<databases, parallel, i, futures, results, returned, merged,
                   merge_raised, execution_log, all_results, merged_results,
                   result>>
    /\ UNCHANGED <<invoked, log_base, held, exports, stats, exported,
                   downloaded_files, at_call>>
    /\ UNCHANGED <<hashVars, dedupVars>>

\* as_completed is exhausted, the with block joins the pool, results is
\* returned to search_multiple_databases.
ParallelReturn ==
    /\ pc = "collect"
    /\ \A f \in 1..Len(futures) : futures[f].collected
    /\ pc' = "merge"
    /\ UNCHANGED <<databases, parallel, i, futures, results, returned, merged,
                   merge_raised, execution_log, all_results, merged_results,
                   result>>
    /\ UNCHANGED <<invoked, log_base, held, exports, stats, exported,
                   downloaded_files, at_call>>
    /\ UNCHANGED <<hashVars, dedupVars>>

\* ---------------------------------------------------------- _search_sequential
\* An iteration for an id without a bot: the log entry and a failed entry.
SeqUnsupported ==
    /\ pc = "seq_loop"
    /\ i <= Len(databases)
    /\ databases[i] \notin Bots
    /\ execution_log' =
          Append(execution_log, LogEntry("unsupported", databases[i], 0, 0))
    /\ results' = DictSet(results, UnsupportedEntry(databases[i]))
    /\ returned' = Append(returned, UnsupportedEntry(databases[i]))
    /\ i' = i + 1
    /\ UNCHANGED <<pc, databases, parallel, futures, merged, merge_raised,
                   all_results, merged_results, result>>
    /\ UNCHANGED <<invoked, log_base, held, exports, stats, exported,
                   downloaded_files, at_call>>
    /\ UNCHANGED <<hashVars, dedupVars>>

\* Mutant: the loop calls the bots from the end of the list backwards
\* (for db in reversed(databases)) while recording by list position.
SeqCallStartReversed ==
    /\ pc = "seq_loop"
    /\ i <= Len(databases)
    /\ databases[i] \in Bots
    /\ execution_log' =
          Append(execution_log, LogEntry("db_start", databases[i], 0, 0))
    /\ invoked' = Append(invoked, databases[Len(databases) + 1 - i])
    /\ pc' = "seq_call"
    /\ UNCHANGED <<databases, parallel, i, futures, results, returned, merged,
                   merge_raised, all_results, merged_results, result>>
    /\ UNCHANGED <<log_base, held, exports, stats, exported,
                   downloaded_files, at_call>>
    /\ UNCHANGED <<hashVars, dedupVars>>

\* An iteration for a registered id, up to the backend call: the start entry,
\* then the caller's thread is inside bot.search_patents.
SeqCallStart ==
    /\ pc = "seq_loop"
    /\ i <= Len(databases)
    /\ databases[i] \in Bots
    /\ execution_log' =
          Append(execution_log, LogEntry("db_start", databases[i], 0, 0))
    /\ invoked' = Append(invoked, databases[i])
    /\ pc' = "seq_call"
    /\ UNCHANGED <<databases, parallel, i, futures, results, returned, merged,
                   merge_raised, all_results, merged_results, result>>
    /\ UNCHANGED <<log_base, held, exports, stats, exported,
                   downloaded_files, at_call>>
    /\ UNCHANGED <<hashVars, dedupVars>>

\* Mutant: the loop body has no try block, so the exception of a backend
\* call leaves _search_sequential.
SeqCallReturnAborts(out) ==
    /\ pc = "seq_call"
    /\ IF out.kind = "raise"
       THEN /\ RunFailed(ExceptionMessage)
            /\ UNCHANGED <<results, returned, i>>
       ELSE /\ results' = DictSet(results, EntryOf(databases[i], out))
            /\ returned' = Append(returned, EntryOf(databases[i], out))
            /\ execution_log' = Append(execution_log, LogOf(databases[i], out))
            /\ i' = i + 1
            /\ pc' = "seq_loop"
            /\ UNCHANGED result
    /\ UNCHANGED <<databases, parallel, futures, merged, merge_raised,
                   all_results, merged_results>>
    /\ UNCHANGED <<invoked, log_base, held, exports, stats, exported,
                   downloaded_files, at_call>>
    /\ UNCHANGED <<hashVars, dedupVars>>

\* The backend call returns or raises: the entry of results and the log
\* entry, then the next iteration.
SeqCallReturn(out) ==
    /\ pc = "seq_call"
    /\ results' = DictSet(results, EntryOf(databases[i], out))
    /\ returned' = Append(returned, EntryOf(databases[i], out))
    /\ execution_log' = Append(execution_log, LogOf(databases[i], out))
    /\ i' = i + 1
    /\ pc' = "seq_loop"
    /\ UNCHANGED <<databases, parallel, futures, merged, merge_raised,
                   all_results, merged_results, result>>
    /\ UNCHANGED <<invoked, log_base, held, exports, stats, exported,
                   downloaded_files, at_call>>
    /\ UNCHANGED <<hashVars, dedupVars>>

\* The loop is over: results is returned to search_multiple_databases.
SeqReturn ==
    /\ pc = "seq_loop"
    /\ i > Len(databases)
    /\ pc' = "merge"
    /\ UNCHANGED <<databases, parallel, i, futures, results, returned, merged,
                   merge_raised, execution_log, all_results, merged_results,
                   result>>
    /\ UNCHANGED <<invoked, log_base, held, exports, stats, exported,
                   downloaded_files, at_call>>
    /\ UNCHANGED <<hashVars, dedupVars>>

\* ------------------------------------------------ _merge_and_deduplicate_results
\* Mutant: the collecting loop has no status test and visits the records of
\* every entry.
RECURSIVE CollectRefsAll(_, _)
CollectRefsAll(dict, k) ==
    IF k > Len(dict) THEN <<>>
    ELSE [j \in 1..Len(dict[k].results) |-> <<k, j>>]
         \o CollectRefsAll(dict, k + 1)

\* The records the collecting loop visits, in its order: <<k, j>> is record j
\* of entry k of results, for the entries whose status is "completed".
RECURSIVE CollectRefs(_, _)
CollectRefs(dict, k) ==
    IF k > Len(dict) THEN <<>>
    ELSE (IF dict[k].status = "completed"
          THEN [j \in 1..Len(dict[k].results) |-> <<k, j>>]
          ELSE <<>>)
         \o CollectRefs(dict, k + 1)

RefRecord(dict, ref) == dict[ref[1]].results[ref[2]]

\* patent["source_databases"] = [db]
Tag(patent, db) == [patent EXCEPT !.source_databases = {db}]

\* The first position of refs whose record is no dict, where the tagging
\* statement raises; 0 when every record is a dict.
FirstBad(dict, refs) ==
    IF \E p \in 1..Len(refs) : ~RefRecord(dict, refs[p]).dict
    THEN CHOOSE p \in 1..Len(refs) :
            /\ ~RefRecord(dict, refs[p]).dict
            /\ \A q \in 1..(p - 1) : RefRecord(dict, refs[q]).dict
    ELSE 0

\* all_patents once the collecting loop has ended without raising.
AllPatents(dict) ==
    LET refs == CollectRefs(dict, 1)
    IN  [p \in 1..Len(refs) |-> Tag(RefRecord(dict, refs[p]), dict[refs[p][1]].db)]

\* The results dict after the merge: the records are the objects the merge
\* tagged and, for the first record of each fingerprint, merged into.  upto
\* is the number of records the collecting loop tagged, dd the run of
\* _deduplicate_patents over them ([] when the loop raised).
Mutated(dict, upto, dd) ==
    LET refs == CollectRefs(dict, 1)
        all == AllPatents(dict)
        Pos(k, j) == CHOOSE p \in 1..Len(refs) : refs[p] = <<k, j>>
        Now(k, j) ==
            LET p == Pos(k, j)
            IN  IF p > upto THEN dict[k].results[j]
                ELSE IF \E q \in 1..Len(dd.firsts) : dd.firsts[q] = p
                     THEN dd.deduplicated[
                             CHOOSE q \in 1..Len(dd.firsts) : dd.firsts[q] = p]
                     ELSE all[p]
    IN  [k \in 1..Len(dict) |->
            IF dict[k].status = "completed"
            THEN [dict[k] EXCEPT
                    !.results = [j \in 1..Len(dict[k].results) |-> Now(k, j)]]
            ELSE dict[k]]

NoDedup == [deduplicated |-> <<>>, seen_hashes |-> {}, firsts |-> <<>>]

\* Mutant: the except clause of the merge logs and re-raises, so the
\* exception reaches the except clause of search_multiple_databases.
MergeReraises ==
    /\ pc = "merge"
    /\ LET refs == CollectRefs(results, 1)
           bad == FirstBad(results, refs)
           dd == DedupRun(AllPatents(results))
       IN  IF bad # 0
           THEN /\ execution_log' =
                      execution_log
                      \o <<LogEntry("merge_start", "", 0, 0),
                           LogEntry("merge_error", "", 0, 0),
                           LogEntry("run_error", "merge", 0, 0)>>
                /\ results' = Mutated(results, bad - 1, NoDedup)
                /\ merged' = <<>>
                /\ merge_raised' = TRUE
                /\ result' = [status |-> "failed", error |-> "merge",
                              keys |-> {"status", "error"},
                              total_found_by_db |-> <<>>, total_found |-> 0,
                              merged_count |-> 0,
                              deduplication_ratio |-> <<0, 1>>,
                              results |-> <<>>, results_by_database |-> <<>>]
                /\ pc' = "done"
           ELSE /\ execution_log' =
                      execution_log
                      \o <<LogEntry("merge_start", "", 0, 0),
                           LogEntry("dedup_done", "", Len(refs),
                                    Len(dd.deduplicated))>>
                /\ results' = Mutated(results, Len(refs), dd)
                /\ merged' = dd.deduplicated
                /\ merge_raised' = FALSE
                /\ pc' = "summary"
                /\ UNCHANGED result
    /\ UNCHANGED <<databases, parallel, i, futures, returned, all_results,
                   merged_results>>
    /\ UNCHANGED <<invoked, log_base, held, exports, stats, exported,
                   downloaded_files, at_call>>
    /\ UNCHANGED <<hashVars, dedupVars>>

\* The whole of _merge_and_deduplicate_results(results).
Merge ==
    /\ pc = "merge"
    /\ LET refs == CollectRefs(results, 1)
           bad == FirstBad(results, refs)
           dd == DedupRun(AllPatents(results))
       IN  IF bad # 0
           THEN /\ execution_log' =
                      execution_log
                      \o <<LogEntry("merge_start", "", 0, 0),
                           LogEntry("merge_error", "", 0, 0)>>
                /\ results' = Mutated(results, bad - 1, NoDedup)
                /\ merged' = <<>>
                /\ merge_raised' = TRUE
           ELSE /\ execution_log' =
                      execution_log
                      \o <<LogEntry("merge_start", "", 0, 0),
                           LogEntry("dedup_done", "", Len(refs),
                                    Len(dd.deduplicated))>>
                /\ results' = Mutated(results, Len(refs), dd)
                /\ merged' = dd.deduplicated
                /\ merge_raised' = FALSE
    /\ pc' = "summary"
    /\ UNCHANGED <<databases, parallel, i, futures, returned, all_results,
                   merged_results, result>>
    /\ UNCHANGED <<invoked, log_base, held, exports, stats, exported,
                   downloaded_files, at_call>>
    /\ UNCHANGED <<hashVars, dedupVars>>

\* ------------------------------------------------------------------ summary
\* sum(len(result.get("results", [])) for result in results.values())
RECURSIVE SumFound(_, _)
SumFound(dict, k) ==
    IF k > Len(dict) THEN 0 ELSE Len(dict[k].results) + SumFound(dict, k + 1)

TotalFound(dict) == SumFound(dict, 1)

\* Mutant: the records are looked up under a key the entries do not have, so
\* every count is that of the default [].
TotalFoundByDbWrongKey(dict) ==
    [k \in 1..Len(dict) |-> [db |-> dict[k].db, n |-> 0]]

\* {db: len(result.get("results", [])) for db, result in results.items()}
TotalFoundByDb(dict) ==
    [k \in 1..Len(dict) |-> [db |-> dict[k].db, n |-> Len(dict[k].results)]]

\* A float quotient num / den is the pair <<num, den>>; 0.0 is <<0, 1>>.
\* Mutant: the difference is taken the wrong way round.
RatioInverted(dict, merged_list) ==
    LET total_original == TotalFound(dict)
        total_merged == Len(merged_list)
    IN  IF total_original = 0 THEN <<0, 1>>
        ELSE <<total_merged - total_original, total_original>>

_calculate_dedup_ratio(dict, merged_list) ==
    LET total_original == TotalFound(dict)
        total_merged == Len(merged_list)
    IN  IF total_original = 0 THEN <<0, 1>>
        ELSE <<total_original - total_merged, total_original>>

\* The lists the entries hold under "downloaded_files".  The coordinator
\* only reads them; the model's backends report one file, named after the
\* database, in a completed summary with records, and every other entry
\* holds [].
EntryFiles(entry) ==
    IF entry.status = "completed" /\ entry.results # <<>>
    THEN <<entry.db>> ELSE <<>>

\* all_downloaded_files: the entries' lists, one after the other.
RECURSIVE AllDownloadedFiles(_, _)
AllDownloadedFiles(dict, k) ==
    IF k > Len(dict) THEN <<>>
    ELSE EntryFiles(dict[k]) \o AllDownloadedFiles(dict, k + 1)

\* The rest of the try block of search_multiple_databases: the coordinator's
\* stored results, the summary, the completion entry.  The summary's
\* execution_log is self.execution_log itself, not a copy.
Summary ==
    /\ pc = "summary"
    /\ all_results' = results
    /\ merged_results' = merged
    /\ downloaded_files' = AllDownloadedFiles(results, 1)
    /\ result' = [status |-> "completed", error |-> "",
                  keys |-> {"status", "databases_searched", "total_found_by_db",
                            "total_found", "merged_count",
                            "deduplication_ratio", "results",
                            "results_by_database", "downloaded_files",
                            "execution_time", "execution_log"},
                  total_found_by_db |-> TotalFoundByDb(results),
                  total_found |-> TotalFound(results),
                  merged_count |-> Len(merged),
                  deduplication_ratio |-> _calculate_dedup_ratio(results, merged),
                  results |-> merged, results_by_database |-> results]
    /\ execution_log' =
          Append(execution_log, LogEntry("run_done", "", Len(merged), 0))
    /\ pc' = "done"
    /\ UNCHANGED <<databases, parallel, i, futures, results, returned, merged,
                   merge_raised>>
    /\ UNCHANGED <<invoked, log_base, held, exports, stats, exported, at_call>>
    /\ UNCHANGED <<hashVars, dedupVars>>

\* -------------------------------------------------------------------- Spec
Next ==
    \/ \E dbs \in SeqsUpTo(DatabaseIds, MaxDbs), par \in BOOLEAN : StartRun(dbs, par)
    \/ PoolCreate
    \/ Submit
    \/ \E f \in 1..Len(futures) : WorkerStart(f)
    \/ \E f \in 1..Len(futures), out \in Outcomes : WorkerFinish(f, out)
    \/ \E f \in 1..Len(futures) : Collect(f)
    \/ ParallelReturn
    \/ SeqUnsupported
    \/ SeqCallStart
    \/ \E out \in Outcomes : SeqCallReturn(out)
    \/ SeqReturn
    \/ Merge
    \/ Summary

Spec == Init /\ [][Next]_vars

\* --------------------------------------------------------------- SpecReuse
\* What the backends answered in the run that has ended, one entry per list
\* position that names a registered bot, in list order: the outcome of the
\* task submitted for that position, or of the call the sequential loop made
\* for it.
IsRegistered(entry) == entry.db \in Bots

BackendAnswers ==
    IF parallel
    THEN [f \in 1..Len(futures) |-> EntryOf(futures[f].db, futures[f].out)]
    ELSE SelectSeq(returned, IsRegistered)

\* search_multiple_databases returns: its locals are gone and the caller
\* holds the summary.  The caller's record keeps what the summary and the
\* list under its execution_log key held at that moment, with the request
\* that was made and the backends' answers to it.
Return ==
    /\ pc = "done"
    /\ held' = Append(held, [summary |-> result, execution_log |-> execution_log,
                             databases |-> databases, parallel |-> parallel,
                             answers |-> BackendAnswers])
    /\ pc' = "idle"
    /\ i' = 0
    /\ futures' = <<>>
    /\ results' = <<>>
    /\ returned' = <<>>
    /\ merged' = <<>>
    /\ merge_raised' = FALSE
    /\ invoked' = <<>>
    /\ UNCHANGED <<databases, parallel, execution_log, all_results,
                   merged_results, result, log_base, exports, stats, exported,
                   downloaded_files, at_call>>
    /\ UNCHANGED <<hashVars, dedupVars>>

\* A further call on the same coordinator.
Call(dbs, par) ==
    /\ Len(held) < MaxRuns
    /\ StartRun(dbs, par)

\* The dict get_statistics builds from the coordinator's stored results.
Statistics ==
    [called |-> TRUE,
     total_databases_searched |-> Cardinality(Bots),
     total_results_found |-> Len(all_results),
     total_files_downloaded |-> Len(downloaded_files),
     merged_results_count |-> Len(merged_results),
     original_count |-> SumFound(all_results, 1),
     deduplicated_count |-> Len(merged_results),
     duplicates_removed |-> SumFound(all_results, 1) - Len(merged_results)]

get_statistics ==
    /\ pc = "idle"
    /\ stats' = Statistics
    /\ UNCHANGED <<pc, databases, parallel, i, futures, results, returned,
                   merged, merge_raised, execution_log, all_results,
                   merged_results, result, invoked, log_base, held, exports,
                   exported, downloaded_files, at_call>>
    /\ UNCHANGED <<hashVars, dedupVars>>

\* export_results(output_file): the file is written and the export entry
\* appended, or writing raises and the error entry is appended.
export_results(ok) ==
    /\ pc = "idle"
    /\ exports < MaxExports
    /\ exports' = exports + 1
    /\ IF ok
       THEN /\ exported' = [written |-> TRUE, merged_results |-> merged_results,
                            statistics |-> Statistics,
                            execution_log |-> execution_log]
            /\ execution_log' =
                  Append(execution_log, LogEntry("exported", "", 0, 0))
       ELSE /\ execution_log' =
                  Append(execution_log, LogEntry("export_error", "", 0, 0))
            /\ UNCHANGED exported
    /\ UNCHANGED <<pc, databases, parallel, i, futures, results, returned,
                   merged, merge_raised, all_results, merged_results, result,
                   invoked, log_base, held, stats, downloaded_files, at_call>>
    /\ UNCHANGED <<hashVars, dedupVars>>

NextReuse ==
    \/ \E dbs \in SeqsUpTo(DatabaseIds, MaxReuseDbs), par \in BOOLEAN : Call(dbs, par)
    \/ PoolCreate
    \/ Submit
    \/ \E f \in 1..Len(futures) : WorkerStart(f)
    \/ \E f \in 1..Len(futures), out \in Outcomes : WorkerFinish(f, out)
    \/ \E f \in 1..Len(futures) : Collect(f)
    \/ ParallelReturn
    \/ SeqUnsupported
    \/ SeqCallStart
    \/ \E out \in Outcomes : SeqCallReturn(out)
    \/ SeqReturn
    \/ Merge
    \/ Summary
    \/ Return
    \/ get_statistics
    \/ \E ok \in BOOLEAN : export_results(ok)

SpecReuse == Init /\ [][NextReuse]_vars

\* --------------------------------------------------------------- SpecModes
\* One request made twice on one coordinator: in parallel mode, then with
\* the same databases list in sequential mode.
CallParallel(dbs) ==
    /\ Len(held) = 0
    /\ StartRun(dbs, TRUE)

CallSequential ==
    /\ Len(held) = 1
    /\ StartRun(held[1].databases, FALSE)

NextModes ==
    \/ \E dbs \in SeqsUpTo(DatabaseIds, MaxModeDbs) : CallParallel(dbs)
    \/ CallSequential
    \/ PoolCreate
    \/ Submit
    \/ \E f \in 1..Len(futures) : WorkerStart(f)
    \/ \E f \in 1..Len(futures), out \in Outcomes : WorkerFinish(f, out)
    \/ \E f \in 1..Len(futures) : Collect(f)
    \/ ParallelReturn
    \/ SeqUnsupported
    \/ SeqCallStart
    \/ \E out \in Outcomes : SeqCallReturn(out)
    \/ SeqReturn
    \/ Merge
    \/ Summary
    \/ Return

SpecModes == Init /\ [][NextModes]_vars

\* ---------------------------------------------------------------- SpecLive
\* Runs in which every backend call eventually returns or raises (the
\* fairness of WorkerFinish and SeqCallReturn) and every thread that can
\* take a step eventually takes it: the pool has as many threads as
\* databases, so a submitted task starts, and the calling thread runs its
\* loops, the merge and the summary.
\* The step of the calling thread from the merge to the summary.  Merge is
\* enabled exactly when pc = "merge", and the steps of NextLive that satisfy
\* MergeStep are the Merge steps, so WF_pc(MergeStep) is the weak fairness of
\* Merge, stated without the values the merge computes.
MergeStep == pc = "merge" /\ pc' = "summary"

Fairness ==
    /\ WF_vars(PoolCreate)
    /\ WF_vars(Submit)
    /\ WF_vars(\E f \in 1..Len(futures) : WorkerStart(f))
    /\ WF_vars(\E f \in 1..Len(futures), out \in Outcomes : WorkerFinish(f, out))
    /\ WF_vars(\E f \in 1..Len(futures) : Collect(f))
    /\ WF_vars(ParallelReturn)
    /\ WF_vars(SeqUnsupported)
    /\ WF_vars(SeqCallStart)
    /\ WF_vars(\E out \in Outcomes : SeqCallReturn(out))
    /\ WF_vars(SeqReturn)
    /\ WF_pc(MergeStep)
    /\ WF_vars(Summary)

NextLive ==
    \/ \E dbs \in SeqsUpTo(DatabaseIds, MaxLiveDbs), par \in BOOLEAN : StartRun(dbs, par)
    \/ PoolCreate
    \/ Submit
    \/ \E f \in 1..Len(futures) : WorkerStart(f)
    \/ \E f \in 1..Len(futures), out \in Outcomes : WorkerFinish(f, out)
    \/ \E f \in 1..Len(futures) : Collect(f)
    \/ ParallelReturn
    \/ SeqUnsupported
    \/ SeqCallStart
    \/ \E out \in Outcomes : SeqCallReturn(out)
    \/ SeqReturn
    \/ Merge
    \/ Summary

SpecLive == Init /\ [][NextLive]_vars /\ Fairness

\* ----------------------------------------------------------------- SpecSeq
\* Sequential runs over up to MaxSeqDbs ids whose backends return up to
\* MaxMergeRecs records each.
SeqOutcomes ==
    {[kind |-> "raise", results |-> <<>>], [kind |-> "failed", results |-> <<>>]}
    \cup {[kind |-> "completed", results |-> r] :
            r \in SeqsUpTo(RunPool, MaxMergeRecs)}

NextSeq ==
    \/ \E dbs \in SeqsUpTo(DatabaseIds, MaxSeqDbs) : StartRun(dbs, FALSE)
    \/ SeqUnsupported
    \/ SeqCallStart
    \/ \E out \in SeqOutcomes : SeqCallReturn(out)
    \/ SeqReturn
    \/ Merge
    \/ Summary

SpecSeq == Init /\ [][NextSeq]_vars

\* --------------------------------------------------------------- SpecMerge
\* _merge_and_deduplicate_results on a results dict drawn from bounded sets:
\* one entry per registered database, in either insertion order, each with
\* status "completed" or "failed" and up to MaxMergeRecs records.
MergeEntries(db) ==
    {BotSummary(db, [kind |-> st, results |-> r]) :
        st \in {"completed", "failed"}, r \in SeqsUpTo(RunPool, MaxMergeRecs)}

MergeInputs ==
    {<<>>}
    \cup {<<e>> : e \in MergeEntries("twpat") \cup MergeEntries("uspto")}
    \cup {<<e1, e2>> : e1 \in MergeEntries("twpat"), e2 \in MergeEntries("uspto")}
    \cup {<<e2, e1>> : e1 \in MergeEntries("twpat"), e2 \in MergeEntries("uspto")}

InitMerge ==
    /\ pc = "merge"
    /\ results \in MergeInputs
    /\ returned = results
    /\ databases = [k \in 1..Len(results) |-> results[k].db]
    /\ parallel = FALSE
    /\ i = Len(results) + 1
    /\ futures = <<>>
    /\ merged = <<>>
    /\ merge_raised = FALSE
    /\ execution_log = <<>>
    /\ all_results = <<>>
    /\ merged_results = <<>>
    /\ result = NoResult
    /\ invoked = <<>>
    /\ log_base = 0
    /\ held = <<>>
    /\ exports = 0
    /\ stats = NoStats
    /\ exported = NoExport
    /\ downloaded_files = <<>>
    /\ at_call = NothingStored
    /\ IdleHash
    /\ IdleDedup

NextMerge == Merge

SpecMerge == InitMerge /\ [][NextMerge]_vars

\* ---------------------------------------------------------------- SpecHash
\* _calculate_patent_hash on two records drawn from bounded sets.
NumberChars == {"U", "S", "T", "W", "1", "-", "/"}

HashTitles == {<<"W">>, <<"w", " ">>}

HashRecord(number, title, abstract) ==
    Patent(number, title, abstract, "", "", {}, {}, {}, {})

InitHash ==
    /\ h_a \in {HashRecord(n, t, a) :
                  n \in SeqsUpTo(NumberChars, MaxNumLen), t \in HashTitles,
                  a \in {"", "A gadget."}}
    /\ h_b \in {HashRecord(n, t, "") :
                  n \in SeqsUpTo(NumberChars, MaxNumLen - 1), t \in HashTitles}
    /\ h_out = <<>>
    /\ InitRun
    /\ IdleDedup

HashBoth ==
    /\ h_out = <<>>
    /\ h_out' = <<_calculate_patent_hash(h_a), _calculate_patent_hash(h_b)>>
    /\ UNCHANGED <<h_a, h_b, runVars, dedupVars>>

NextHash == HashBoth

SpecHash == InitHash /\ [][NextHash]_vars

\* --------------------------------------------------------------- SpecDedup
\* _deduplicate_patents on a working sequence drawn from tagged records: two
\* patents, each as several databases report it.
WidgetOther ==
    Patent(<<"1", "2">>, <<"W", "i">>, "Another gadget.", "", "Body.",
           {"ann", "dan"}, {}, {"G06"}, {"fig2"})

GearPlain ==
    Patent(<<"7">>, <<"g">>, "", "2. A gear.", "", {}, {"gearco"}, {}, {"fig3"})

DedupPool ==
    {Tag(WidgetUS, "twpat"), Tag(WidgetPlain, "uspto"), Tag(WidgetOther, "uspto"),
     Tag(GearTW, "twpat"), Tag(GearPlain, "uspto")}

InitDedup ==
    /\ d_patents \in SeqsUpTo(DedupPool, MaxPatents)
    /\ d_out = NoDedupOut
    /\ d_again = NoDedupOut
    /\ InitRun
    /\ IdleHash

DedupCall ==
    /\ ~d_out.done
    /\ d_out' = [done |-> TRUE, deduplicated |-> _deduplicate_patents(d_patents)]
    /\ UNCHANGED <<d_patents, d_again, runVars, hashVars>>

\* A second call, on the list the first returned concatenated with itself.
DedupAgain ==
    /\ d_out.done
    /\ ~d_again.done
    /\ d_again' =
          [done |-> TRUE,
           deduplicated |->
              _deduplicate_patents(d_out.deduplicated \o d_out.deduplicated)]
    /\ UNCHANGED <<d_patents, d_out, runVars, hashVars>>

NextDedup == DedupCall \/ DedupAgain

SpecDedup == InitDedup /\ [][NextDedup]_vars

\* ------------------------------------------------------------------ claims
SeqSet(seq) == {seq[k] : k \in 1..Len(seq)}

\* The last entry the run recorded for database d.
LastReturned(d) ==
    returned[CHOOSE k \in 1..Len(returned) :
                /\ returned[k].db = d
                /\ \A j \in (k + 1)..Len(returned) : returned[j].db # d]

\* The positions of databases that name a registered bot, and the backend
\* calls whose outcome the run recorded.
RegisteredRequests == {k \in 1..Len(databases) : databases[k] \in Bots}

RecordedCalls == {k \in 1..Len(returned) : returned[k].db \in Bots}

\* The records, as the backends returned them, of the entries of
\* results_by_database whose status is "completed".
CompletedDbs ==
    {d \in Keys(result.results_by_database) : LastReturned(d).status = "completed"}

BackendRecords == UNION {SeqSet(LastReturned(d).results) : d \in CompletedDbs}

Completed == pc = "done" /\ result.status = "completed"

\* C1: failure isolation.  In a run in which a backend call raised, the
\* returned status is "completed"; a database whose recorded call raised has
\* an entry with status "failed" and the exception's message; every requested
\* registered backend was called; and, when the merge step did not itself
\* raise, each record of each completed entry is represented in the merged
\* results with its database among the sources.
C1_FailureIsolation ==
    (pc = "done" /\ \E k \in 1..Len(returned) : returned[k].error = ExceptionMessage)
    => /\ result.status = "completed"
       /\ \A d \in Bots \cap Keys(returned) :
             LastReturned(d).error = ExceptionMessage
             => /\ d \in Keys(result.results_by_database)
                /\ DictGet(result.results_by_database, d).status = "failed"
                /\ DictGet(result.results_by_database, d).error = ExceptionMessage
       /\ Cardinality(RecordedCalls) = Cardinality(RegisteredRequests)
       /\ ~merge_raised
          => \A d \in CompletedDbs : \A r \in SeqSet(LastReturned(d).results) :
                \E q \in 1..Len(result.results) :
                   /\ _calculate_patent_hash(result.results[q])
                         = _calculate_patent_hash(r)
                   /\ d \in result.results[q].source_databases

\* A parallel run in which one backend raised and the other's record was merged.
C1_Witness ==
    /\ pc = "done"
    /\ parallel
    /\ result.status = "completed"
    /\ \E k \in 1..Len(result.results_by_database) :
          result.results_by_database[k].error = ExceptionMessage
    /\ Len(result.results) = 1

\* C2: a completed run has exactly one entry of results_by_database per
\* requested id; an id without a bot has a failed entry with the unsupported
\* error and no records; the totals are those of the other entries.
C2_OneEntryPerRequestedId ==
    Completed
    => /\ Keys(result.results_by_database) = SeqSet(databases)
       /\ Len(result.results_by_database) = Cardinality(SeqSet(databases))
       /\ \A d \in SeqSet(databases) \ Bots :
             /\ d \in Keys(result.results_by_database)
             /\ DictGet(result.results_by_database, d).status = "failed"
             /\ DictGet(result.results_by_database, d).error = UnsupportedError
             /\ DictGet(result.results_by_database, d).results = <<>>
       /\ result.total_found =
             SumFound(SelectSeq(result.results_by_database,
                                LAMBDA e : e.db \in Bots), 1)

\* C3: an id without a bot never aborts the run: the status is "completed"
\* and every requested registered backend was called.
C3_UnsupportedNeverAborts ==
    (pc = "done" /\ \E k \in 1..Len(databases) : databases[k] \notin Bots)
    => /\ result.status = "completed"
       /\ Cardinality(RecordedCalls) = Cardinality(RegisteredRequests)

\* A parallel run over an unregistered id and a registered one that completed
\* with a record.
C3_Witness ==
    /\ pc = "done"
    /\ parallel
    /\ \E k \in 1..Len(databases) : databases[k] \notin Bots
    /\ \E k \in 1..Len(result.results_by_database) :
          /\ result.results_by_database[k].status = "completed"
          /\ result.results_by_database[k].results # <<>>

\* C4: a run over the empty databases list returns total_found = 0,
\* merged_count = 0, deduplication_ratio = 0.0 and no per-database entries,
\* in either mode.
C4_EmptyDatabases ==
    (pc = "done" /\ databases = <<>>)
    => /\ result.total_found = 0
       /\ result.merged_count = 0
       /\ "deduplication_ratio" \in result.keys
       /\ result.deduplication_ratio = <<0, 1>>
       /\ result.results_by_database = <<>>

\* The sum of the values of total_found_by_db.
RECURSIVE SumCounts(_, _)
SumCounts(counts, k) ==
    IF k > Len(counts) THEN 0 ELSE counts[k].n + SumCounts(counts, k + 1)

\* C5: the returned merged_count is at most the sum of the values of
\* total_found_by_db.
C5_MergedAtMostFound ==
    pc = "done" => result.merged_count <= SumCounts(result.total_found_by_db, 1)

\* A run whose merge removed a duplicate.
C5_Witness ==
    /\ pc = "done"
    /\ result.merged_count >= 1
    /\ result.merged_count < SumCounts(result.total_found_by_db, 1)

\* C6: deduplication_ratio is (total_original - total_merged) /
\* total_original, 0.0 when total_original = 0, and lies between 0 and 1.
C6_DedupRatio ==
    Completed
    => /\ result.deduplication_ratio =
             IF result.total_found = 0 THEN <<0, 1>>
             ELSE <<result.total_found - result.merged_count, result.total_found>>
       /\ 0 <= result.deduplication_ratio[1]
       /\ result.deduplication_ratio[1] <= result.deduplication_ratio[2]

\* A run with a failed entry whose merge removed one record of two.
C6_Witness ==
    /\ Completed
    /\ \E k \in 1..Len(result.results_by_database) :
          result.results_by_database[k].status = "failed"
    /\ result.deduplication_ratio = <<1, 2>>

\* A run whose merge raised over records that were found: the ratio is 1.
C6_WitnessFailedMerge ==
    /\ Completed
    /\ merge_raised
    /\ result.deduplication_ratio[1] = result.deduplication_ratio[2]

\* The normalisation the fingerprint is specified by: the upper-cased number
\* without its non-alphanumeric characters and without one leading country
\* code, and the trimmed lower-cased title.
IsAlnum(c) == c \notin {"-", "/", " ", "|"}

SpecifiedNumber(number) ==
    LET u == SelectSeq(upper(number), IsAlnum)
    IN  IF Len(u) >= 2 /\ SubSeq(u, 1, 2) \in {<<"U", "S">>, <<"T", "W">>}
        THEN SubSeq(u, 3, Len(u))
        ELSE u

SpecifiedTitle(title) == lower(strip(title))

\* C7: two records have the same hash if and only if their specified
\* normalised numbers are equal and their normalised titles are equal.
C7_HashIffNormalized ==
    h_out # <<>>
    => ((h_out[1] = h_out[2])
        <=> /\ SpecifiedNumber(h_a.patent_number) = SpecifiedNumber(h_b.patent_number)
            /\ SpecifiedTitle(h_a.title) = SpecifiedTitle(h_b.title))

\* Two numbers differ at most by a leading country code, two titles at most
\* in letter case and surrounding whitespace.
SameButCountryCode(n1, n2) ==
    \/ n1 = n2
    \/ \E code \in {<<"U", "S">>, <<"T", "W">>} : n1 = code \o n2 \/ n2 = code \o n1

SameButCase(t1, t2) == lower(strip(t1)) = lower(strip(t2))

MergedFor(r) ==
    {q \in 1..Len(result.results) :
        _calculate_patent_hash(result.results[q]) = _calculate_patent_hash(r)}

\* C8: when two completed backends return records whose numbers differ only
\* by a leading US/TW code and whose titles differ only in case and
\* surrounding whitespace, the merged results (of a merge that did not
\* raise) hold exactly one record for them, whose source_databases is the
\* set of both database ids.
C8_CrossDatabaseIdentity ==
    (Completed /\ ~merge_raised)
    => \A d1 \in CompletedDbs : \A d2 \in CompletedDbs \ {d1} :
          \A r1 \in SeqSet(LastReturned(d1).results),
             r2 \in SeqSet(LastReturned(d2).results) :
             (/\ SameButCountryCode(r1.patent_number, r2.patent_number)
              /\ SameButCase(r1.title, r2.title))
             => /\ MergedFor(r1) = MergedFor(r2)
                /\ Cardinality(MergedFor(r1)) = 1
                /\ \A q \in MergedFor(r1) :
                      result.results[q].source_databases = {d1, d2}

\* "US12"/"Wi" from one database and "12"/"wi " from the other, merged.
C8_Witness ==
    /\ Completed
    /\ ~merge_raised
    /\ CompletedDbs = Bots
    /\ \E d \in Bots : SeqSet(LastReturned(d).results) = {WidgetUS}
    /\ \E d \in Bots : SeqSet(LastReturned(d).results) = {WidgetPlain}
    /\ Len(result.results) = 1
    /\ result.results[1].source_databases = Bots

\* The first non-empty value of field among the records of patents that have
\* the fingerprint of m, in the order of patents; "" when all are empty.
FirstNonEmpty(patents, m, field) ==
    LET ps == {p \in 1..Len(patents) :
                 /\ _calculate_patent_hash(patents[p]) = _calculate_patent_hash(m)
                 /\ patents[p][field] # ""}
    IN  IF ps = {} THEN ""
        ELSE patents[CHOOSE p \in ps : \A o \in ps : p <= o][field]

\* C9: abstract, claims and description of every merged record are the first
\* non-empty value among the records of its fingerprint, in working-sequence
\* order.
C9_FillForward ==
    d_out.done
    => \A q \in 1..Len(d_out.deduplicated) :
          \A field \in {"abstract", "claims", "description"} :
             d_out.deduplicated[q][field]
                = FirstNonEmpty(d_patents, d_out.deduplicated[q], field)

\* abstract "" first, then "A gadget.", then another non-empty abstract.
C9_Witness ==
    /\ d_out.done
    /\ Len(d_patents) = 3
    /\ d_patents[1].abstract = ""
    /\ d_patents[2].abstract = "A gadget."
    /\ d_patents[3].abstract = "Another gadget."
    /\ Len(d_out.deduplicated) = 1
    /\ d_out.deduplicated[1].abstract = "A gadget."

\* C10: inventors, applicants, ipc_classes and images of every merged record
\* (of a merge that did not raise) are the union of those fields over the
\* records of completed backends that have the record's fingerprint.
C10_UnionOfLists ==
    (Completed /\ ~merge_raised)
    => \A q \in 1..Len(result.results) :
          LET m == result.results[q]
              same == {r \in BackendRecords :
                         _calculate_patent_hash(r) = _calculate_patent_hash(m)}
          IN  \A field \in {"inventors", "applicants", "ipc_classes", "images"} :
                 m[field] = UNION {r[field] : r \in same}

\* Two databases' records of one patent merged: both inventors, the one image.
C10_Witness ==
    /\ Completed
    /\ ~merge_raised
    /\ \E q \in 1..Len(result.results) :
          /\ result.results[q].inventors = {"ann", "bob"}
          /\ result.results[q].images = {"fig1"}
          /\ result.results[q].ipc_classes = {"G06"}

\* C11: source provenance.  After a merge that did not raise, the
\* source_databases of each merged record is exactly the set of the databases
\* with a completed entry whose backend returned a record of that fingerprint.
C11_SourceProvenance ==
    (Completed /\ ~merge_raised)
    => \A q \in 1..Len(result.results) :
          result.results[q].source_databases
             = {d \in CompletedDbs :
                  \E r \in SeqSet(LastReturned(d).results) :
                     _calculate_patent_hash(r)
                        = _calculate_patent_hash(result.results[q])}

\* Both databases completed with a record of one fingerprint: the merged
\* record names both.
C11_Witness ==
    /\ Completed
    /\ ~merge_raised
    /\ CompletedDbs = Bots
    /\ Len(result.results) = 1
    /\ result.results[1].source_databases = Bots
    /\ \A d \in Bots : LastReturned(d).results # <<>>

\* C12: the merge is idempotent.  _deduplicate_patents applied to an already
\* deduplicated list concatenated with itself returns the same records: as
\* many as before, each with every field value it had (the multi-valued
\* fields as sets).
C12_MergeIdempotent ==
    d_again.done
    => /\ Len(d_again.deduplicated) = Len(d_out.deduplicated)
       /\ SeqSet(d_again.deduplicated) = SeqSet(d_out.deduplicated)

\* The first call merged two records of three; the second call was made on
\* the two merged records, twice over.
C12_Witness ==
    /\ d_again.done
    /\ Len(d_patents) = 3
    /\ Len(d_out.deduplicated) = 2
    /\ \E q \in 1..2 : Cardinality(d_out.deduplicated[q].source_databases) = 2
    /\ Len(d_again.deduplicated) = 2

\* The entries of execution_log that report a failure of database d.
FailureEntries(d) ==
    {k \in 1..Len(execution_log) :
        /\ execution_log[k].kind \in {"db_error", "unsupported"}
        /\ execution_log[k].db = d}

\* C13: every call returns a summary; when every backend call of the run
\* failed (raised or returned status "failed"), the summary has no merged
\* results, total_found = 0, and execution_log is non-empty and holds an entry
\* reporting the failure of each failed database.
C13_TotalFailureExplained ==
    pc = "done"
    => /\ result.status \in {"completed", "failed"}
       /\ (RecordedCalls # {}
           /\ \A k \in RecordedCalls : returned[k].status = "failed")
          => /\ result.results = <<>>
             /\ result.total_found = 0
             /\ execution_log # <<>>
             /\ \A k \in RecordedCalls : FailureEntries(returned[k].db) # {}

\* The step in which a run fails is taken inside a strategy or the merge,
\* but not where the outcome of a backend call is taken over; it appends the
\* failure entry to the entries logged so far.
FailedStep ==
    (result.status # "failed" /\ result'.status = "failed")
    => /\ pc \in {"pool", "submit", "seq_loop", "merge"}
       /\ returned' = returned
       /\ execution_log' =
             Append(execution_log, LogEntry("run_error", result'.error, 0, 0))

\* A failed summary: the error, no merged records, the failure entry last.
FailedSummary ==
    (pc = "done" /\ result.status = "failed")
    => /\ "error" \in result.keys
       /\ result.error # ""
       /\ result.merged_count = 0
       /\ result.results = <<>>
       /\ execution_log[Len(execution_log)]
             = LogEntry("run_error", result.error, 0, 0)

\* C14: the returned status is "failed" only through an exception that
\* leaves a strategy or the merge, never through the failure of a backend
\* call (a run with a failed backend call returns "completed"); a failed
\* summary carries the error, merged_count = 0, no results, and the log
\* entries appended up to the failure followed by the failure entry.
C14_FailedOnlyByEscape ==
    /\ [](FailedSummary)
    /\ []((pc = "done" /\ \E k \in RecordedCalls : returned[k].status = "failed")
          => result.status = "completed")
    /\ [][FailedStep]_vars

\* A run that failed: the pool refused an empty databases list.
C14_Witness ==
    /\ pc = "done"
    /\ result.status = "failed"
    /\ result.error = PoolError
    /\ Len(execution_log) = 3
    /\ execution_log[3].kind = "run_error"

\* A run that returned "completed" although every backend call failed.
C14_WitnessBackendFailed ==
    /\ Completed
    /\ Cardinality(RecordedCalls) = 2
    /\ \A k \in RecordedCalls : returned[k].status = "failed"

\* A backend whose summary the merge reads returned an element that is no
\* dict, on which the tagging statement of the merge raises.
MalformedReturned ==
    \E d \in Keys(results) :
       /\ LastReturned(d).status = "completed"
       /\ \E r \in SeqSet(LastReturned(d).results) : ~r.dict

\* C15: a merge that raises degrades to no results.  Once the merge has run
\* over results with a malformed record, execution_log holds its error
\* entry and the merged list is empty; the run returns status "completed"
\* with merged_count = 0 and no results, never the collected records.
C15_MergeFailureDegrades ==
    (pc \in {"summary", "done"} /\ MalformedReturned)
    => /\ merged = <<>>
       /\ \E k \in 1..Len(execution_log) : execution_log[k].kind = "merge_error"
       /\ pc = "done"
          => /\ result.status = "completed"
             /\ result.merged_count = 0
             /\ result.results = <<>>

\* One backend returned a well-formed record, the next one a malformed
\* element: the run completed with no merged record of the two found.
C15_Witness ==
    /\ Completed
    /\ MalformedReturned
    /\ result.total_found = 2
    /\ result.results_by_database[1].results[1].dict
    /\ result.merged_count = 0

\* The registered ids among the first n elements of databases, in order.
RegisteredPrefix(n) == SelectSeq(SubSeq(databases, 1, n), LAMBDA d : d \in Bots)

\* In a sequential run the calls made so far are those of the registered ids
\* of the list positions reached, in list order, and the outcomes recorded
\* are those of all earlier positions: during a call exactly that call is
\* outstanding, between calls none is.
SequentialProgress ==
    (~parallel /\ pc \in {"seq_loop", "seq_call", "merge", "summary", "done"})
    => /\ invoked = RegisteredPrefix(IF pc = "seq_call" THEN i ELSE i - 1)
       /\ [k \in 1..Len(returned) |-> returned[k].db] = SubSeq(databases, 1, i - 1)
       /\ Len(invoked) - Cardinality(RecordedCalls)
             = IF pc = "seq_call" THEN 1 ELSE 0

\* A call starts only when every call made before it has returned or raised
\* and its outcome is recorded, and it is the call for the next list position.
SequentialCallStep ==
    (invoked' # invoked)
    => /\ Cardinality(RecordedCalls) = Len(invoked)
       /\ Len(returned) = i - 1
       /\ invoked' = Append(invoked, databases[i])

\* C16: sequential mode calls the backends one at a time, without overlap,
\* in the order of the databases argument: the call for a later position
\* starts only after the call for the position before it returned or raised.
C16_SequentialOrder ==
    /\ []SequentialProgress
    /\ [][SequentialCallStep]_vars

\* A sequential run over uspto, an unregistered id and twpat that has called
\* uspto, then twpat.
C16_Witness ==
    /\ pc = "done"
    /\ ~parallel
    /\ databases = <<"uspto", "epo", "twpat">>
    /\ invoked = <<"uspto", "twpat">>
    /\ Len(returned) = 3

\* Every unit _search_parallel dispatched is done and its outcome is an
\* entry of results.
AllDispatchedRecorded ==
    /\ Len(futures) = Cardinality(RegisteredRequests)
    /\ \A f \in 1..Len(futures) :
          /\ futures[f].st = "finished"
          /\ futures[f].collected
          /\ futures[f].db \in Keys(results)
          /\ \E k \in 1..Len(returned) :
                returned[k] = EntryOf(futures[f].db, futures[f].out)

\* C17: no partial-result early return.  In parallel mode _search_parallel
\* returns, and the merge begins, only when every dispatched unit has
\* completed and been recorded; from then on results has an entry for every
\* dispatched database, whatever the order of completion.
C17_NoEarlyReturn ==
    /\ []((parallel /\ pc \in {"merge", "summary"}) => AllDispatchedRecorded)
    /\ []((parallel /\ Completed) => AllDispatchedRecorded)
    /\ [][(parallel /\ pc = "collect" /\ pc' # "collect")
            => (pc' = "merge" /\ AllDispatchedRecorded)]_vars

\* The merge is about to begin on the results of two units that completed
\* against the order of their submission.
C17_Witness ==
    /\ parallel
    /\ pc = "merge"
    /\ Len(futures) = 2
    /\ futures[1].db = "twpat"
    /\ futures[2].db = "uspto"
    /\ Len(results) = 2
    /\ results[1].db = "uspto"
    /\ results[2].db = "twpat"

\* C18: fresh accumulation state per run.  The execution_log in the summary
\* of a run holds only the entries appended during that run: none was in
\* the coordinator's log when the run was called.
C18_FreshLogPerRun ==
    pc = "done"
    => execution_log = SubSeq(execution_log, log_base + 1, Len(execution_log))

\* The last summary the caller holds whose status is "completed"; 0 if none.
LatestCompleted ==
    LET ks == {k \in 1..Len(held) : held[k].summary.status = "completed"}
    IN  IF ks = {} THEN 0 ELSE CHOOSE k \in ks : \A j \in ks : j <= k

\* What a summary the caller holds shows now under its execution_log and
\* results keys.  The first is self.execution_log itself; the second is the
\* list self.merged_results names until a later run stores its own.
LogNow(k) == execution_log

ResultsNow(k) ==
    IF k = LatestCompleted /\ ~(pc = "done" /\ result.status = "completed")
    THEN merged_results
    ELSE held[k].summary.results

\* C19: a returned summary is immutable.  Whatever is called on the
\* coordinator afterwards, every summary the caller holds shows the
\* execution_log and the results it showed when it was returned.
C19_ResultImmutable ==
    \A k \in 1..Len(held) :
       /\ LogNow(k) = held[k].execution_log
       /\ ResultsNow(k) = held[k].summary.results

\* The results of a held summary are the same after an export, a
\* get_statistics call and a further run.
C19_ResultsKept ==
    \A k \in 1..Len(held) : ResultsNow(k) = held[k].summary.results

\* C20: errors are never silently discarded.  In a returned run, in either
\* mode, every error has both an entry of execution_log and an error in the
\* smallest enclosing result object: an id without a bot and a backend whose
\* call raised or returned status "failed" in the database's entry of
\* results_by_database, a merge failure and a run-level failure in the
\* summary itself.
C20_ErrorsNeverDiscarded ==
    pc = "done"
    => /\ result.status = "completed"
          => \A d \in SeqSet(databases) \ Bots :
                /\ FailureEntries(d) # {}
                /\ d \in Keys(result.results_by_database)
                /\ DictGet(result.results_by_database, d).error # ""
       /\ \A d \in Bots \cap Keys(returned) :
             LastReturned(d).status = "failed"
             => /\ FailureEntries(d) # {}
                /\ d \in Keys(result.results_by_database)
                /\ DictGet(result.results_by_database, d).error # ""
       /\ merge_raised
          => /\ \E k \in 1..Len(execution_log) :
                   execution_log[k].kind = "merge_error"
             /\ "error" \in result.keys
             /\ result.error # ""
       /\ result.status = "failed"
          => /\ \E k \in 1..Len(execution_log) :
                   execution_log[k].kind = "run_error"
             /\ "error" \in result.keys
             /\ result.error # ""

\* The part of C20 the code keeps: a backend call that raised has a failure
\* entry in execution_log and its message in the database's entry, and a
\* failed run has its failure entry and its error.
C20_RaisedAndRunErrorsKept ==
    pc = "done"
    => /\ \A d \in Bots \cap Keys(returned) :
             LastReturned(d).error = ExceptionMessage
             => /\ FailureEntries(d) # {}
                /\ DictGet(result.results_by_database, d).error = ExceptionMessage
       /\ result.status = "failed"
          => /\ execution_log[Len(execution_log)].kind = "run_error"
             /\ result.error # ""

\* The entries of the results dict the merge was handed, as the backends
\* returned them, and the records of those whose status is "completed".
MergeInput == returned

CompletedInput ==
    UNION {SeqSet(MergeInput[k].results) :
             k \in {j \in 1..Len(MergeInput) : MergeInput[j].status = "completed"}}

SameFingerprint(m, rs) ==
    {r \in rs : _calculate_patent_hash(r) = _calculate_patent_hash(m)}

\* C21: the merge takes its input only from entries with status "completed".
\* Every merged record has the fingerprint of a record of a completed entry,
\* names only databases whose entry is completed, and holds in each field
\* only values of the completed entries' records with its fingerprint.
C21_CompletedOnly ==
    pc = "summary"
    => \A q \in 1..Len(merged) :
          LET m == merged[q]
              same == SameFingerprint(m, CompletedInput)
          IN  /\ same # {}
              /\ m.source_databases
                    \subseteq {MergeInput[k].db :
                                 k \in {j \in 1..Len(MergeInput) :
                                          MergeInput[j].status = "completed"}}
              /\ \A field \in {"inventors", "applicants", "ipc_classes", "images"} :
                    m[field] \subseteq UNION {r[field] : r \in same}
              /\ \A field \in {"abstract", "claims", "description"} :
                    m[field] \in {r[field] : r \in same}

\* A failed entry that carries a record of the fingerprint of the completed
\* entry's record, with an inventor and an abstract of its own: the merged
\* record has neither.
C21_Witness ==
    /\ pc = "summary"
    /\ Len(MergeInput) = 2
    /\ MergeInput[1].status = "failed"
    /\ MergeInput[1].results = <<WidgetPlain>>
    /\ MergeInput[2].status = "completed"
    /\ MergeInput[2].results = <<WidgetUS>>
    /\ Len(merged) = 1
    /\ merged[1].inventors = {"ann"}
    /\ merged[1].abstract = ""

\* The results dict as the merge was handed it: the keys in the order of
\* results, each with the entry recorded last for it.
MergeArgument == [k \in 1..Len(results) |-> LastReturned(results[k].db)]

\* The working sequence of the merge: the records of the completed entries
\* of its argument, entry by entry.
Flattened == AllPatents(MergeArgument)

\* The position in the working sequence of the first record with hash h.
FirstIndex(h) ==
    CHOOSE p \in 1..Len(Flattened) :
       /\ _calculate_patent_hash(Flattened[p]) = h
       /\ \A o \in 1..(p - 1) : _calculate_patent_hash(Flattened[o]) # h

\* The records of the completed backends in the order of the databases
\* argument (an id at its first position in the list), each backend's
\* records in the order it returned them.
RECURSIVE FlattenByRequest(_)
FlattenByRequest(k) ==
    IF k > Len(databases) THEN <<>>
    ELSE LET db == databases[k]
             first == \A j \in 1..(k - 1) : databases[j] # db
             rs == IF first /\ LastReturned(db).status = "completed"
                   THEN LastReturned(db).results ELSE <<>>
         IN  [j \in 1..Len(rs) |-> Tag(rs[j], db)] \o FlattenByRequest(k + 1)

\* C22: the merged results are in first-seen order of the working sequence:
\* one merged record precedes another exactly when the first record of its
\* fingerprint precedes the first record of the other's; and in a sequential
\* run the working sequence lists the databases in the order of the
\* databases argument and each backend's records in the order returned.
C22_FirstSeenOrder ==
    (pc \in {"summary", "done"} /\ ~merge_raised)
    => /\ \A q1, q2 \in 1..Len(merged) :
             (q1 < q2)
             <=> (FirstIndex(_calculate_patent_hash(merged[q1]))
                    < FirstIndex(_calculate_patent_hash(merged[q2])))
       /\ ~parallel => Flattened = FlattenByRequest(1)

\* A sequential run over uspto, then twpat: uspto returned the gear and the
\* widget, twpat the widget under its other spelling; the merged results
\* are the gear, then the widget.
C22_Witness ==
    /\ pc = "done"
    /\ ~parallel
    /\ ~merge_raised
    /\ databases = <<"uspto", "twpat">>
    /\ LastReturned("uspto").results = <<GearTW, WidgetPlain>>
    /\ LastReturned("twpat").results = <<WidgetUS>>
    /\ Len(merged) = 2
    /\ merged[1].patent_number = GearTW.patent_number
    /\ merged[2].source_databases = Bots

\* C23: a per-database result is immutable after the backend call created
\* it.  After the merge every entry of results_by_database, with each of its
\* records and their fields, is as the backend returned it.
C23_BackendResultImmutable ==
    Completed
    => \A k \in 1..Len(result.results_by_database) :
          result.results_by_database[k]
             = LastReturned(result.results_by_database[k].db)

\* The part of C23 the code keeps: the merge changes no entry's status,
\* error or count, nor the number of its records, and no record of an entry
\* that is not completed.
C23_EntriesKeptApartFromRecords ==
    Completed
    => \A k \in 1..Len(result.results_by_database) :
          LET now == result.results_by_database[k]
              was == LastReturned(now.db)
          IN  /\ now.status = was.status
              /\ now.error = was.error
              /\ now.total_found = was.total_found
              /\ Len(now.results) = Len(was.results)
              /\ was.status # "completed" => now.results = was.results

\* execution_log has a start entry for database d that is followed by a
\* completion entry of d with a result count or by an error entry of d.
StartThenOutcome(d) ==
    \E k1, k2 \in 1..Len(execution_log) :
       /\ k1 < k2
       /\ execution_log[k1] = LogEntry("db_start", d, 0, 0)
       /\ execution_log[k2].db = d
       /\ execution_log[k2].kind \in {"db_done", "db_error"}

\* C24: in either mode the execution_log of a returned run holds a run-start
\* entry and, for every requested registered database, a per-backend start
\* entry followed by its completion entry with the result count or by the
\* error entry of the caught exception.
C24_LogContents ==
    pc = "done"
    => /\ \E k \in 1..Len(execution_log) : execution_log[k].kind = "run_start"
       /\ \A d \in SeqSet(databases) \cap Bots : StartThenOutcome(d)

\* The part of C24 the code keeps: the run-start entry in both modes, the
\* completion or error entry of every requested registered database in both
\* modes, and the start entry before it in sequential mode.
C24_LoggedApartFromParallelStart ==
    pc = "done"
    => /\ execution_log[1].kind = "run_start"
       /\ \A d \in SeqSet(databases) \cap Bots :
             /\ \E k \in 1..Len(execution_log) :
                   /\ execution_log[k].db = d
                   /\ execution_log[k].kind \in {"db_done", "db_error"}
                   /\ execution_log[k].kind = "db_done"
                      => \E j \in 1..Len(returned) :
                            /\ returned[j].db = d
                            /\ returned[j].total_found = execution_log[k].n
             /\ ~parallel => StartThenOutcome(d)

\* A step of a pool thread: the state of a submitted task changes.
WorkerStep ==
    /\ Len(futures') = Len(futures)
    /\ \E f \in 1..Len(futures) : futures'[f].st # futures[f].st

\* A pool thread writes neither execution_log nor the results map, so both
\* have the collecting thread as their only writer.
SingleWriter ==
    WorkerStep => (execution_log' = execution_log /\ results' = results)

\* execution_log only grows at its end.
AppendOnly ==
    /\ Len(execution_log') >= Len(execution_log)
    /\ SubSeq(execution_log', 1, Len(execution_log)) = execution_log

\* Among the entries of a parallel run the run-start entry comes first and
\* every per-backend completion or error entry precedes the merge-start
\* entry.
CausalOrder ==
    (parallel /\ pc # "idle")
    => /\ execution_log[log_base + 1].kind = "run_start"
       /\ \A k1, k2 \in (log_base + 1)..Len(execution_log) :
             (/\ execution_log[k1].kind \in {"db_done", "db_error", "unsupported"}
              /\ execution_log[k2].kind = "merge_start")
             => k1 < k2

\* C25: in parallel mode execution_log and the results map are written
\* through a single path.  Under every interleaving of the pool threads no
\* pool thread writes either (the thread that collects the futures is the
\* only writer), the log is append-only, and its entries keep causal order.
C25_SingleWriterPath ==
    /\ [][SingleWriter]_vars
    /\ [][AppendOnly]_vars
    /\ []CausalOrder

\* A parallel run in which both pool threads were inside their backend
\* calls at once and whose merge has begun after two collected outcomes.
C25_Witness ==
    /\ parallel
    /\ pc = "summary"
    /\ Len(futures) = 2
    /\ Cardinality({k \in 1..Len(execution_log) :
                       execution_log[k].kind \in {"db_done", "db_error"}}) = 2
    /\ \E k \in 1..Len(execution_log) : execution_log[k].kind = "merge_start"

\* Two pool threads are inside their backend calls at the same time.
C25_WitnessOverlap ==
    /\ parallel
    /\ Cardinality({f \in 1..Len(futures) : futures[f].st = "running"}) = 2

\* While a backend call of a parallel run has not ended, the run is inside
\* _search_parallel: neither the merge nor the summary has been reached.
ParallelWaitsForCalls ==
    (parallel /\ \E f \in 1..Len(futures) : futures[f].st # "finished")
    => pc \in {"submit", "collect"}

\* While the backend call of a sequential run has not ended, the run stays
\* at that call and no backend of a later list position has been called.
SequentialWaitsForCall ==
    (~parallel /\ pc = "seq_call")
    => /\ invoked = RegisteredPrefix(i)
       /\ Len(returned) = i - 1

\* A call in progress ends only by its own return or raise: no step of the
\* run abandons or cancels it.
NoCancellation ==
    /\ \A f \in 1..Len(futures) :
          (futures[f].st = "running" /\ futures'[f].st = "running")
          => /\ futures'[f].collected = futures[f].collected
             /\ pc' \in {"submit", "collect"}
    /\ (pc = "seq_call" /\ pc' # "seq_call")
       => (Len(returned') = Len(returned) + 1 /\ invoked' = invoked)

\* C26: there is no per-backend timeout or cancellation.  When every backend
\* call eventually returns or raises, a run that was called eventually
\* returns, in both modes; a call that has not returned keeps a parallel run
\* from reaching the merge, and keeps a sequential run from calling any
\* backend listed after it.
C26_NoTimeout ==
    /\ (pc \notin {"idle", "done"}) ~> (pc = "done")
    /\ []ParallelWaitsForCalls
    /\ []SequentialWaitsForCall
    /\ [][NoCancellation]_vars

\* A parallel run over two backend calls has returned.
C26_Witness ==
    /\ pc = "done"
    /\ parallel
    /\ Len(futures) = 2
    /\ result.status = "completed"

\* The fingerprints of a sequence of records.
Fingerprints(patents) ==
    {_calculate_patent_hash(patents[p]) : p \in 1..Len(patents)}

\* C27: after a merge that did not raise, the merged results hold exactly
\* one record per fingerprint of the working sequence: no two merged records
\* have the same fingerprint, the fingerprints of the merged records are
\* those of the working sequence, and merged_count is their number.
C27_OnePerFingerprint ==
    (pc \in {"summary", "done"} /\ ~merge_raised)
    => /\ \A q1, q2 \in 1..Len(merged) :
             (_calculate_patent_hash(merged[q1]) = _calculate_patent_hash(merged[q2]))
             => q1 = q2
       /\ Fingerprints(merged) = Fingerprints(Flattened)
       /\ Len(merged) = Cardinality(Fingerprints(Flattened))
       /\ (pc = "done" /\ result.status = "completed")
          => /\ result.merged_count = Cardinality(Fingerprints(Flattened))
             /\ result.results = merged

\* A run whose working sequence is the widget, the gear and the widget
\* again under its other spelling: three records, two merged.
C27_Witness ==
    /\ pc = "done"
    /\ ~merge_raised
    /\ Len(Flattened) = 3
    /\ _calculate_patent_hash(Flattened[1]) = _calculate_patent_hash(Flattened[3])
    /\ _calculate_patent_hash(Flattened[1]) # _calculate_patent_hash(Flattened[2])
    /\ result.merged_count = 2

\* The pool threads that are inside search_patents of the bot registered
\* for db.
RunningCalls(db) ==
    {f \in 1..Len(futures) : futures[f].db = db /\ futures[f].st = "running"}

\* C28: in parallel mode each backend instance executes at most one
\* search_patents call at any time, whatever the databases list, a list
\* that names one id more than once included.
C28_OneCallPerBot ==
    parallel => \A db \in Bots : Cardinality(RunningCalls(db)) <= 1

\* The part of C28 the code keeps: when no id is listed twice, no bot
\* executes two calls at once.
C28_OneCallPerBotDistinctIds ==
    (parallel /\ \A j, k \in 1..Len(databases) :
                    databases[j] = databases[k] => j = k)
    => \A db \in Bots : Cardinality(RunningCalls(db)) <= 1

\* What C29 compares of a returned summary: whether it has a
\* results_by_database at all and its key set, total_found_by_db (a dict, so
\* without order), total_found, merged_count and the fingerprints of the
\* merged results.
ModeView(summary) ==
    [has_results |-> "results_by_database" \in summary.keys,
     dbs |-> {summary.results_by_database[k].db :
                k \in 1..Len(summary.results_by_database)},
     total_found_by_db |-> SeqSet(summary.total_found_by_db),
     total_found |-> summary.total_found,
     merged_count |-> summary.merged_count,
     fingerprints |-> Fingerprints(summary.results)]

\* A parallel and a sequential run of one request whose backends gave the
\* same answers, list position by list position.
SameRequest(a, b) ==
    /\ held[a].parallel
    /\ ~held[b].parallel
    /\ held[a].databases = held[b].databases
    /\ held[a].answers = held[b].answers

\* C29: mode equivalence.  A parallel and a sequential run over the same
\* databases list with the same backend answers return the same key set of
\* results_by_database, the same total_found_by_db, total_found and
\* merged_count and the same fingerprints of merged records, whatever the
\* order in which the parallel workers completed.
C29_ModeEquivalence ==
    \A a, b \in 1..Len(held) :
       SameRequest(a, b) => ModeView(held[a].summary) = ModeView(held[b].summary)

\* The part of C29 the code keeps: the two modes agree for a non-empty list
\* of registered ids none of which is listed twice.
C29_EquivalentOnDistinctRegistered ==
    \A a, b \in 1..Len(held) :
       (/\ SameRequest(a, b)
        /\ held[a].databases # <<>>
        /\ SeqSet(held[a].databases) \subseteq Bots
        /\ Cardinality(SeqSet(held[a].databases)) = Len(held[a].databases))
       => ModeView(held[a].summary) = ModeView(held[b].summary)

\* What the coordinator stores now.
Stored ==
    [all_results |-> all_results, merged_results |-> merged_results,
     downloaded_files |-> downloaded_files]

\* The last run on the coordinator ended with status "failed" and no other
\* has been called since.
LastRunFailed == pc \in {"done", "idle"} /\ result.status = "failed"

\* The counts of a get_statistics dict are those of the stored results st.
ReportsStored(statistics, st) ==
    /\ statistics.total_results_found = Len(st.all_results)
    /\ statistics.merged_results_count = Len(st.merged_results)
    /\ statistics.total_files_downloaded = Len(st.downloaded_files)
    /\ statistics.original_count = SumFound(st.all_results, 1)
    /\ statistics.deduplicated_count = Len(st.merged_results)
    /\ statistics.duplicates_removed
          = SumFound(st.all_results, 1) - Len(st.merged_results)

\* The step that ends a run with status "failed" changes nothing the
\* coordinator stores and appends to execution_log.
FailureStep ==
    (pc # "done" /\ pc' = "done" /\ result'.status = "failed")
    => /\ Stored' = Stored
       /\ Len(execution_log') > Len(execution_log)
       /\ SubSeq(execution_log', 1, Len(execution_log)) = execution_log

\* A get_statistics or export_results that follows a failed run reports the
\* results stored when that run was called.
ReportAfterFailure ==
    LastRunFailed
    => /\ (stats' # stats) => ReportsStored(stats', at_call)
       /\ (exported' # exported)
          => /\ exported'.merged_results = at_call.merged_results
             /\ ReportsStored(exported'.statistics, at_call)

\* C30: state unchanged on run failure.  When a run ends with status
\* "failed", all_results, merged_results and downloaded_files are what they
\* were when it was called, only execution_log has grown, and a following
\* get_statistics or export_results reports the earlier run's merged results
\* and counts.
C30_StateUnchangedOnFailure ==
    /\ [](LastRunFailed => Stored = at_call)
    /\ [][FailureStep]_vars
    /\ [][ReportAfterFailure]_vars

\* A run completed with one merged record and one downloaded file, the next
\* run failed, and the export made after it wrote that record and counted
\* that file.
C30_Witness ==
    /\ pc = "idle"
    /\ Len(held) = 2
    /\ held[1].summary.status = "completed"
    /\ held[1].summary.merged_count = 1
    /\ held[2].summary.status = "failed"
    /\ exported.written
    /\ \E k \in 1..Len(exported.execution_log) :
          exported.execution_log[k].kind = "run_error"
    /\ Len(exported.merged_results) = 1
    /\ exported.statistics.total_files_downloaded = 1

====
